---------------------------- MODULE Spec2Model ----------------------------
(***************************************************************************)
(* Model of the prompt-enricher MCP server (src/main.py): a FastAPI        *)
(* application with four routes                                            *)
(*     GET  /manifest         get_mcp_manifest                             *)
(*     POST /execute_tool     execute_mcp_tool -> enrich_prompt_tool       *)
(*     GET  /access_resource  access_mcp_resource -> get_server_status_... *)
(*     GET  /health           health_check                                 *)
(* The state is the request served last and the response it received; one  *)
(* action per route serves one request of that route.  Request bodies are  *)
(* JSON values, validated the way pydantic validates the declared models.  *)
(* src/helpers.py defines a dictionary `prompts` that main.py never        *)
(* imports; it takes no part in any request and is not modelled.           *)
(***************************************************************************)
EXTENDS Integers, Sequences, FiniteSets, TLC

VARIABLES
    pydantic_major,   \* major version of the installed pydantic (main.py:2 pins none)
    request,          \* the request served last
    response,         \* the HTTP response to it
    fault,            \* the failure that struck the call awaited while serving it
    inflight          \* the requests in flight, one per connection

vars == <<pydantic_major, request, response, fault, inflight>>

(***************************************************************************)
(* Module constants, main.py:7-9.                                          *)
(***************************************************************************)
SERVER_NAME == "prompt_enricher_mcp_server"

SERVER_VERSION == "1.0.0"

SERVER_DESCRIPTION == "MCP Server for enriching prompts based on project context."

(***************************************************************************)
(* JSON values as they arrive in a request: a tag and a payload.  A key    *)
(* that a mapping does not hold is Absent.  An object with declared        *)
(* members carries a record; a free-form object (file_counts) carries the  *)
(* sequence of its <<key, value>> pairs.                                   *)
(***************************************************************************)
Absent == <<"absent">>

JNull == <<"null">>

JStr(s) == <<"str", s>>

JInt(n) == <<"int", n>>

JObj(o) == <<"obj", o>>

Tag(v) == v[1]

Val(v) == v[2]

(***************************************************************************)
(* Strings of decimal digits, which pydantic converts to an integer.        *)
(***************************************************************************)
CharAt(s, i) == SubSeq(s, i, i)

Digits == <<"0", "1", "2", "3", "4", "5", "6", "7", "8", "9">>

IsDigit(c) == \E d \in 1..Len(Digits) : Digits[d] = c

DigitValue(c) == (CHOOSE d \in 1..Len(Digits) : Digits[d] = c) - 1

IsIntString(s) == Len(s) > 0 /\ \A i \in 1..Len(s) : IsDigit(CharAt(s, i))

RECURSIVE ParseInt(_, _)
ParseInt(s, n) ==
    IF n = 0 THEN 0 ELSE 10 * ParseInt(s, n - 1) + DigitValue(CharAt(s, n))

(***************************************************************************)
(* pydantic validation of the declared models.  Every validator returns    *)
(* [errors, value]: the list of errors (location and kind) and, when that  *)
(* list is empty, the validated value.  A model collects the errors of all *)
(* its fields before its constructor raises.                               *)
(***************************************************************************)
Err(loc, type) == <<[loc |-> loc, type |-> type]>>

\* A field annotated `str` (main.py:14, 15, 18).  pydantic 1 coerces a number to
\* its decimal text; pydantic 2 accepts a string only.
StrField(loc, v) ==
    CASE Tag(v) = "absent" -> [errors |-> Err(loc, "missing"), value |-> ""]
      [] Tag(v) = "str" -> [errors |-> <<>>, value |-> Val(v)]
      [] Tag(v) = "int" /\ pydantic_major = 1 ->
            [errors |-> <<>>, value |-> ToString(Val(v))]
      [] OTHER -> [errors |-> Err(loc, "string_type"), value |-> ""]

\* A value annotated `int` (the values of file_counts, main.py:13): an integer,
\* or a string of digits, which both pydantic versions convert.
IntField(loc, v) ==
    CASE Tag(v) = "int" -> [errors |-> <<>>, value |-> Val(v)]
      [] Tag(v) = "str" /\ IsIntString(Val(v)) ->
            [errors |-> <<>>, value |-> ParseInt(Val(v), Len(Val(v)))]
      [] Tag(v) = "str" -> [errors |-> Err(loc, "int_parsing"), value |-> 0]
      [] OTHER -> [errors |-> Err(loc, "int_type"), value |-> 0]

RECURSIVE DictErrors(_, _)
DictErrors(loc, pairs) ==
    IF pairs = <<>> THEN <<>>
    ELSE IntField(loc \o "." \o Head(pairs)[1], Head(pairs)[2]).errors
             \o DictErrors(loc, Tail(pairs))

\* file_counts: Dict[str, int] (main.py:13).
DictStrIntField(loc, v) ==
    CASE Tag(v) = "absent" -> [errors |-> Err(loc, "missing"), value |-> <<>>]
      [] Tag(v) = "obj" ->
            [errors |-> DictErrors(loc, Val(v)),
             value |-> [i \in 1..Len(Val(v)) |->
                           <<Val(v)[i][1], IntField(loc, Val(v)[i][2]).value>>]]
      [] OTHER -> [errors |-> Err(loc, "dict_type"), value |-> <<>>]

\* Mutant of WorkspaceInfo: project_type declared as one of the three known
\* literals, so any other string fails validation.
WorkspaceInfo_KnownTypesOnly(loc, v) ==
    CASE Tag(v) = "absent" -> [errors |-> Err(loc, "missing"), value |-> <<>>]
      [] Tag(v) = "obj" ->
            LET file_counts == DictStrIntField(loc \o ".file_counts", Val(v).file_counts)
                project_type == StrField(loc \o ".project_type", Val(v).project_type)
                original_heuristic ==
                    StrField(loc \o ".original_heuristic", Val(v).original_heuristic)
                literal ==
                    IF project_type.errors = <<>>
                       /\ project_type.value \notin {"frontend", "backend-api", "database"}
                    THEN Err(loc \o ".project_type", "literal_error")
                    ELSE <<>>
            IN  [errors |-> file_counts.errors \o project_type.errors \o literal
                                \o original_heuristic.errors,
                 value |-> [file_counts |-> file_counts.value,
                            project_type |-> project_type.value,
                            original_heuristic |-> original_heuristic.value]]
      [] OTHER -> [errors |-> Err(loc, "model_type"), value |-> <<>>]

\* class WorkspaceInfo (main.py:12-15), as the type of the field workspace_info.
WorkspaceInfo(loc, v) ==
    CASE Tag(v) = "absent" -> [errors |-> Err(loc, "missing"), value |-> <<>>]
      [] Tag(v) = "obj" ->
            LET file_counts == DictStrIntField(loc \o ".file_counts", Val(v).file_counts)
                project_type == StrField(loc \o ".project_type", Val(v).project_type)
                original_heuristic ==
                    StrField(loc \o ".original_heuristic", Val(v).original_heuristic)
            IN  [errors |-> file_counts.errors \o project_type.errors
                                \o original_heuristic.errors,
                 value |-> [file_counts |-> file_counts.value,
                            project_type |-> project_type.value,
                            original_heuristic |-> original_heuristic.value]]
      [] OTHER -> [errors |-> Err(loc, "model_type"), value |-> <<>>]

\* class EnrichPromptInput (main.py:17-19), constructed from **arguments.
EnrichPromptInput(arguments) ==
    LET raw_prompt == StrField("raw_prompt", arguments.raw_prompt)
        workspace_info == WorkspaceInfo("workspace_info", arguments.workspace_info)
    IN  [errors |-> raw_prompt.errors \o workspace_info.errors,
         value |-> [raw_prompt |-> raw_prompt.value,
                    workspace_info |-> workspace_info.value]]

RECURSIVE ErrorLines(_)
ErrorLines(errors) ==
    IF errors = <<>> THEN ""
    ELSE "\n" \o Head(errors).loc \o "\n  " \o Head(errors).type
             \o ErrorLines(Tail(errors))

\* str(e) of the ValidationError the constructor raises: the number of errors,
\* the model's name, then each error's location and kind.
ValidationErrorText(errors) ==
    ToString(Len(errors)) \o " validation error"
        \o (IF Len(errors) = 1 THEN "" ELSE "s")
        \o " for EnrichPromptInput" \o ErrorLines(errors)

(***************************************************************************)
(* The enricher, main.py:27-161.  Each branch is an f-string: the raw      *)
(* prompt followed by literal text.  The three literals are written out    *)
(* separately, as the source writes them.                                  *)
(***************************************************************************)
\* main.py:31-153, the text after {params.raw_prompt}.
FrontendSuffix ==
       " ## System Prompt: Expert React Component Unit Test Generator\n"
    \o "\n"
    \o "You are an expert AI assistant specializing in generating high-quality, comprehensive unit tests for React components using **React Testing Library** and **Jest** (or Vitest, if specified). Your primary goal is to ensure robust test coverage that validates component behavior, rendering, and interactions according to modern best practices for both JavaScript and TypeScript.\n"
    \o "\n"
    \o "### Core Task: Generate Unit Tests\n"
    \o "\n"
    \o "Given a React component's source code (provided separately or as context), generate a suite of unit tests.\n"
    \o "\n"
    \o "### I. General Testing Principles & Best Practices\n"
    \o "\n"
    \o "1.  **Focus on User Behavior, Not Implementation Details:**\n"
    \o "    *   Tests should primarily verify what the user sees and how they interact with the component.\n"
    \o "    *   Avoid testing internal state or methods directly unless absolutely necessary for complex logic not exposed through the UI.\n"
    \o "    *   Queries should reflect how users find elements (e.g., by role, text, label, placeholder).\n"
    \o "2.  **Arrange, Act, Assert (AAA Pattern):** Structure each test clearly:\n"
    \o "    *   **Arrange:** Set up the necessary conditions (render the component, mock props, mock API calls, set up initial state via props or context).\n"
    \o "    *   **Act:** Perform the action to be tested (e.g., click a button, type in an input, simulate an event).\n"
    \o "    *   **Assert:** Verify the expected outcome (e.g., text appears/disappears, a function is called, state changes are reflected in the UI).\n"
    \o "3.  **Test Isolation:** Each test should be independent and not rely on the state or outcome of previous tests. Use \"beforeEach\" or \"afterEach\" for common setup/teardown if needed.\n"
    \o "4.  **Readability and Maintainability:**\n"
    \o "    *   Use descriptive \"describe\" and \"it\" (or \"test\") block names that clearly state what is being tested.\n"
    \o "    *   Keep tests concise and focused on a single piece of behavior.\n"
    \o "    *   Use constants for repeated selectors or test data to improve readability.\n"
    \o "5.  **Avoid Brittle Tests:**\n"
    \o "    *   Prefer querying by accessible roles, text content, or \"data-testid\" attributes (use \"data-testid\" sparingly, primarily for elements where other queries are difficult or unstable).\n"
    \o "    *   Avoid relying on specific CSS class names or deeply nested DOM structures for querying if possible.\n"
    \o "\n"
    \o "### II. Specific Instructions for Test Generation\n"
    \o "\n"
    \o "1.  **File Structure and Imports:**\n"
    \o "    *   Assume tests are co-located in a \"__tests__\" folder or a \"*.test.tsx\" (or \"*.test.js\") file alongside the component.\n"
    \o "    *   Include necessary imports from \"@testing-library/react\", \"@testing-library/jest-dom\" (for custom matchers like \"toBeInTheDocument\"), and \"@testing-library/user-event\" (for realistic user interactions).\n"
    \o "    *   Import the component being tested.\n"
    \o "    *   If mocking is needed, import \"jest.fn()\" or relevant mocking utilities.\n"
    \o "\n"
    \o "2.  **Basic Rendering Tests:**\n"
    \o "    *   Verify the component renders without crashing.\n"
    \o "    *   Check for the presence of key static elements, text content, or headings expected on initial render.\n"
    \o "    *   If applicable, test default prop values.\n"
    \o "\n"
    \o "3.  **Props Testing:**\n"
    \o "    *   Test how the component renders and behaves with different required and optional props.\n"
    \o "    *   For boolean props, test both \"true\" and \"false\" states.\n"
    \o "    *   For string/number props, test with representative values.\n"
    \o "    *   For function props (callbacks):\n"
    \o "        *   Verify they are called with the correct arguments when the corresponding user interaction occurs. Use \"jest.fn()\" for mocking.\n"
    \o "        *   Example: const handleClick = jest.fn(); render(<Button onClick=handleClick' />); userEvent.click(screen.getByRole('button')); expect(handleClick).toHaveBeenCalledTimes(1);\n"
    \o "\n"
    \o "4.  **User Interaction Testing (using \"user-event\"):**\n"
    \o "    *   Simulate clicks, typing, form submissions, hover events, etc.\n"
    \o "    *   Verify the UI updates correctly in response to these interactions.\n"
    \o "    *   Example: userEvent.type(screen.getByLabelText('Username'), 'testuser'); expect(screen.getByLabelText('Username')).toHaveValue('testuser');\n"
    \o "\n"
    \o "5.  **Conditional Rendering:**\n"
    \o "    *   If the component renders different UI based on props or state, test each condition.\n"
    \o "    *   Verify that elements appear or disappear as expected.\n"
    \o "    *   Example: render(<MyComponent showDetails=true />); expect(screen.getByText('Detailed Information')).toBeInTheDocument();\n"
    \o "    *   Then: render(<MyComponent showDetails=false />); expect(screen.queryByText('Detailed Information')).not.toBeInTheDocument(); (use \"queryBy\" for asserting absence).\n"
    \o "\n"
    \o "6.  **Accessibility (A11y) Considerations (Basic):**\n"
    \o "    *   Ensure interactive elements have accessible names (e.g., buttons have text, inputs are associated with labels).\n"
    \o "    *   Query elements by their ARIA roles where appropriate (e.g., screen.getByRole('button',  name: /submit/i )).\n"
    \o "\n"
    \o "7.  **Asynchronous Operations:**\n"
    \o "    *   If the component performs asynchronous actions (e.g., API calls), use \"async/await\" with \"findBy*\" or \"waitFor\" queries from React Testing Library to test loading states and final outcomes.\n"
    \o "    *   Mock API calls using \"jest.mock\" or by mocking \"fetch\"/\"axios\".\n"
    \o "    *   Example for API call:\n"
    \o "        [START JS/TS CODE EXAMPLE for Async Test]\n"
    \o "        // At the top of the test file or in a setup file\n"
    \o "        jest.mock('./apiService', () => (\n"
    \o "          fetchData: jest.fn(),\n"
    \o "        ));\n"
    \o "        const mockFetchData = require('./apiService').fetchData;\n"
    \o "\n"
    \o "        it('displays data after successful API call', async () => \n"
    \o "          mockFetchData.mockResolvedValueOnce( data: 'Test Data' );\n"
    \o "          render(<MyAsyncComponent />);\n"
    \o "          expect(screen.getByText(/loading/i)).toBeInTheDocument(); // Optional loading state\n"
    \o "          expect(await screen.findByText('Test Data')).toBeInTheDocument();\n"
    \o "          expect(mockFetchData).toHaveBeenCalledTimes(1);\n"
    \o "        );\n"
    \o "        [END JS/TS CODE EXAMPLE for Async Test]\n"
    \o "\n"
    \o "8.  **Context Testing (If Applicable):**\n"
    \o "    *   If the component consumes or provides React Context, wrap the component in the necessary \"Context.Provider\" during rendering, providing appropriate mock values for the context.\n"
    \o "    *   Example:\n"
    \o "        [START JS/TS CODE EXAMPLE for Context Test]\n"
    \o "        import  MyThemeContext  from './MyThemeContext';\n"
    \o "        render(\n"
    \o "          <MyThemeContext.Provider value= theme: 'dark' >\n"
    \o "            <ComponentConsumingTheme />\n"
    \o "          </MyThemeContext.Provider>\n"
    \o "        );\n"
    \o "        expect(screen.getByTestId('themed-element')).toHaveStyle('background-color: black');\n"
    \o "        [END JS/TS CODE EXAMPLE for Context Test]\n"
    \o "\n"
    \o "9.  **Error Handling (If Applicable):**\n"
    \o "    *   If the component has explicit error handling UI, test that error states are displayed correctly when errors occur (e.g., failed API call, invalid input).\n"
    \o "\n"
    \o "### III. TypeScript Specifics\n"
    \o "\n"
    \o "*   **Typing:** Ensure all mocked functions, props, and test setup utilize correct TypeScript types.\n"
    \o "*   **\"render\" Function Typing:** The component passed to \"render\" should match its defined props interface.\n"
    \o "*   **Mocking Modules/Functions:** When using \"jest.mock\", ensure the mocked implementation satisfies the original module's type signature. Use \"jest.MockedFunction\" or \"jest.Mocked\" for type safety with mocks.\n"
    \o "    [START TS CODE EXAMPLE for Typed Mock]\n"
    \o "    import fetchData  from './apiService';\n"
    \o "    jest.mock('./apiService');\n"
    \o "    const mockFetchData = fetchData as jest.MocfetchDatakedFunction<typeof fetchData>;\n"
    \o "\n"
    \o "    // In test:\n"
    \o "    mockFetchData.mockResolvedValueOnce( id: 1, name: 'Test Item' );\n"
    \o "    [END TS CODE EXAMPLE for Typed Mock]\n"
    \o "\n"
    \o "### IV. Output Format\n"
    \o "\n"
    \o "*   Provide the complete test file content.\n"
    \o "*   Use \"describe\" blocks to group related tests for a component or a specific feature of it.\n"
    \o "*   Use \"it\" or \"test\" for individual test cases with clear, descriptive names.\n"
    \o "*   Ensure proper indentation and code formatting for readability.\n"
    \o "\n"
    \o "### V. Component Code to Test\n"
    \o "\n"
    \o "(Assume the component code will be provided immediately following this system prompt or as part of the broader context of the conversation.)"

\* main.py:155, the text after {params.raw_prompt}.
BackendApiSuffix ==
    " Important: Focus on scalability, security, and database interactions."

\* Mutant of DatabaseSuffix: the database branch given a text of its own.
DatabaseSuffix_OwnText ==
    " Important: Focus on schema design, indexing, and query performance."

\* main.py:157, the text after {params.raw_prompt}.
DatabaseSuffix ==
    " Important: Focus on scalability, security, and database interactions."

\* Mutant of EnrichedPromptText: the literal text placed before the raw prompt.
EnrichedPromptText_SuffixFirst(raw_prompt, project_type) ==
    IF project_type = "frontend" THEN FrontendSuffix \o raw_prompt
    ELSE IF project_type = "backend-api" THEN BackendApiSuffix \o raw_prompt
    ELSE IF project_type = "database" THEN DatabaseSuffix \o raw_prompt
    ELSE ""

\* Mutant of EnrichedPromptText: no else branch, so the initial assignment of
\* main.py:28 stands for an unrecognised project type.
EnrichedPromptText_KeepsRaw(raw_prompt, project_type) ==
    IF project_type = "frontend" THEN raw_prompt \o FrontendSuffix
    ELSE IF project_type = "backend-api" THEN raw_prompt \o BackendApiSuffix
    ELSE IF project_type = "database" THEN raw_prompt \o DatabaseSuffix
    ELSE raw_prompt

\* Mutant of EnrichedPromptText: the database branch interpolates the raw
\* prompt and appends nothing, so the prompt comes back as it was given.
EnrichedPromptText_DatabaseUnchanged(raw_prompt, project_type) ==
    IF project_type = "frontend" THEN raw_prompt \o FrontendSuffix
    ELSE IF project_type = "backend-api" THEN raw_prompt \o BackendApiSuffix
    ELSE IF project_type = "database" THEN raw_prompt
    ELSE ""

\* main.py:28-159: the text the branches assign to enriched_prompt_text.
EnrichedPromptText(raw_prompt, project_type) ==
    IF project_type = "frontend" THEN raw_prompt \o FrontendSuffix
    ELSE IF project_type = "backend-api" THEN raw_prompt \o BackendApiSuffix
    ELSE IF project_type = "database" THEN raw_prompt \o DatabaseSuffix
    ELSE ""

\* Mutant of enrich_prompt_tool: the heuristic that classified the workspace is
\* appended to the text when the workspace holds files.
enrich_prompt_tool_ReadsWorkspace(params) ==
    [data |-> [enriched_prompt |->
        EnrichedPromptText(params.raw_prompt, params.workspace_info.project_type)
            \o (IF params.workspace_info.file_counts # <<>>
                THEN " (" \o params.workspace_info.original_heuristic \o ")"
                ELSE "")]]

\* main.py:27-161: the branches' text wrapped in EnrichPromptOutput.
enrich_prompt_tool(params) ==
    [data |-> [enriched_prompt |->
        EnrichedPromptText(params.raw_prompt, params.workspace_info.project_type)]]

(***************************************************************************)
(* What a handler does: it returns a value or raises an exception.         *)
(***************************************************************************)
Return(value) == <<"return", value>>

Raise(exc) == <<"raise", exc>>

Raised(outcome) == outcome[1] = "raise"

\* An exception other than HTTPException; str(e) is its text.
Exception(type, text) == [type |-> type, status_code |-> 0, detail |-> text]

\* fastapi.HTTPException(status_code=..., detail=...).
HTTPException(status_code, detail) ==
    [type |-> "HTTPException", status_code |-> status_code, detail |-> detail]

(***************************************************************************)
(* Unexpected failures.  No statement of enrich_prompt_tool or of          *)
(* get_server_status_resource raises, yet both are awaited inside a try    *)
(* block (main.py:264-268, 279-282) whose except clause exists for a       *)
(* failure the interpreter may still raise there, such as MemoryError      *)
(* while the result is allocated.  A handler is therefore given the        *)
(* failure, if any, that strikes the call it awaits.                       *)
(***************************************************************************)
NoFault == Exception("none", "")

Faults == {Exception("MemoryError", ""), Exception("RuntimeError", "unexpected failure")}

\* `await call` under failure f: the call's own outcome when nothing strikes.
Await(outcome, f) == IF f = NoFault THEN outcome ELSE Raise(f)

(***************************************************************************)
(* Name resolution.  A name a function body reads is looked up, when the   *)
(* body runs, among the module's globals and Python's builtins; a name     *)
(* bound in neither raises NameError.                                      *)
(***************************************************************************)
\* The names main.py binds at module level: imports, assignments, classes, functions.
ModuleGlobals ==
    {"FastAPI", "HTTPException", "BaseModel", "Field", "List", "Dict", "Any",
     "Optional", "CORSMiddleware", "SERVER_NAME", "SERVER_VERSION",
     "SERVER_DESCRIPTION", "WorkspaceInfo", "EnrichPromptInput",
     "EnrichedPromptData", "EnrichPromptOutput", "enrich_prompt_tool",
     "get_server_status_resource", "MCPToolParameter", "MCPToolDefinition",
     "MCPResourceDefinition", "MCPManifest", "app", "origins", "get_mcp_manifest",
     "ExecuteToolRequest", "execute_mcp_tool", "AccessResourceRequest",
     "access_mcp_resource", "health_check"}

\* The builtins main.py reads.
Builtins == {"True", "False", "None", "Exception", "str", "int", "bool"}

NameIsBound(name) == name \in ModuleGlobals \cup Builtins

(***************************************************************************)
(* The resource, main.py:166-167.                                          *)
(***************************************************************************)
\* Mutant of get_server_status_resource: the manifest's protocol version
\* (main.py:189) reported in place of SERVER_VERSION.
get_server_status_resource_McpVersion ==
    Return([status |-> "running", version |-> "1.0"])

get_server_status_resource == Return([status |-> "running", version |-> SERVER_VERSION])

(***************************************************************************)
(* GET /manifest, main.py:219-255.  The arguments of MCPManifest(...) are  *)
(* evaluated in order; the second tool parameter reads the name `false`    *)
(* (main.py:235).                                                          *)
(***************************************************************************)
MCPToolParameter(name, description, type, required) ==
    [name |-> name, description |-> description, type |-> type, required |-> required]

\* The manifest the handler would build with workspace_info's flag bound to
\* `required`.
MCPManifest(required) ==
    [mcp_version |-> "1.0",
     server_name |-> SERVER_NAME,
     server_version |-> SERVER_VERSION,
     description |-> SERVER_DESCRIPTION,
     tools |-> <<
        [name |-> "enrich_prompt",
         description |-> "Enriches a raw prompt based on workspace information.",
         input_schema |->
            [raw_prompt |->
                MCPToolParameter("raw_prompt", "The initial prompt text.", "string", TRUE),
             workspace_info |->
                MCPToolParameter("workspace_info",
                                 "Information about the workspace/project.",
                                 "object", required)],
         output_schema |->
            [data |-> [type |-> "object",
                       properties |-> [enriched_prompt |-> [type |-> "string"]]]]]>>,
     resources |-> <<
        [uri_pattern |-> "mcp://status",
         description |-> "Provides the current status of the server."]>>]

get_mcp_manifest ==
    IF NameIsBound("false")
    THEN Return(MCPManifest(FALSE))
    ELSE Raise(Exception("NameError", "name 'false' is not defined"))

(***************************************************************************)
(* POST /execute_tool, main.py:261-271.                                    *)
(***************************************************************************)
\* Mutant of ExecuteToolTryWith: the enricher takes its text from a table keyed
\* by project type and raises KeyError for a type the table lacks.
ExecuteToolTryWith_TableLookup(f, arguments) ==
    LET input_data == EnrichPromptInput(arguments)
        project_type == input_data.value.workspace_info.project_type
    IN  IF input_data.errors # <<>>
        THEN Raise(Exception("ValidationError", ValidationErrorText(input_data.errors)))
        ELSE IF project_type \notin {"frontend", "backend-api", "database"}
        THEN Raise(Exception("KeyError", "'" \o project_type \o "'"))
        ELSE Await(Return(enrich_prompt_tool(input_data.value)), f)

\* The body of the try block, main.py:265-267, with failure f striking the
\* awaited enricher.
ExecuteToolTryWith(f, arguments) ==
    LET input_data == EnrichPromptInput(arguments)
    IN  IF input_data.errors # <<>>
        THEN Raise(Exception("ValidationError", ValidationErrorText(input_data.errors)))
        ELSE Await(Return(enrich_prompt_tool(input_data.value)), f)

\* The body of the try block, main.py:265-267.
ExecuteToolTry(arguments) == ExecuteToolTryWith(NoFault, arguments)

\* Mutant of execute_mcp_tool: the tool's name compared with a misspelt literal.
execute_mcp_tool_MisspeltName(tool_name, arguments) ==
    IF tool_name = "enrich-prompt"
    THEN LET result == ExecuteToolTry(arguments)
         IN  IF Raised(result)
             THEN Raise(HTTPException(400,
                      "Error processing tool '" \o tool_name
                          \o "' (enrich_prompt): " \o result[2].detail))
             ELSE result
    ELSE Raise(HTTPException(404, "Tool '" \o tool_name \o "' not found."))

\* Mutant of execute_mcp_tool: the arguments parsed before the name is looked at.
execute_mcp_tool_ParsesFirst(tool_name, arguments) ==
    LET result == ExecuteToolTry(arguments)
    IN  IF Raised(result)
        THEN Raise(HTTPException(400,
                 "Error processing tool '" \o tool_name
                     \o "' (enrich_prompt): " \o result[2].detail))
        ELSE IF tool_name = "enrich_prompt" THEN result
        ELSE Raise(HTTPException(404, "Tool '" \o tool_name \o "' not found."))

\* Mutant of execute_mcp_tool: no try/except around the parse, so a
\* ValidationError leaves the handler as it is.
execute_mcp_tool_NoExcept(tool_name, arguments) ==
    IF tool_name = "enrich_prompt"
    THEN ExecuteToolTry(arguments)
    ELSE Raise(HTTPException(404, "Tool '" \o tool_name \o "' not found."))

\* Mutant of execute_mcp_tool_with: the 400 message names the tool and leaves
\* out str(e).
execute_mcp_tool_with_GenericMessage(f, tool_name, arguments) ==
    IF tool_name = "enrich_prompt"
    THEN LET result == ExecuteToolTryWith(f, arguments)
         IN  IF Raised(result)
             THEN Raise(HTTPException(400,
                      "Error processing tool '" \o tool_name \o "' (enrich_prompt)"))
             ELSE result
    ELSE Raise(HTTPException(404, "Tool '" \o tool_name \o "' not found."))

\* Mutant of execute_mcp_tool_with: the try block ends after the parse, so the
\* enricher is awaited outside it.
execute_mcp_tool_with_EnricherOutsideTry(f, tool_name, arguments) ==
    IF tool_name = "enrich_prompt"
    THEN LET input_data == EnrichPromptInput(arguments)
         IN  IF input_data.errors # <<>>
             THEN Raise(HTTPException(400,
                      "Error processing tool '" \o tool_name
                          \o "' (enrich_prompt): "
                          \o ValidationErrorText(input_data.errors)))
             ELSE Await(Return(enrich_prompt_tool(input_data.value)), f)
    ELSE Raise(HTTPException(404, "Tool '" \o tool_name \o "' not found."))

\* The handler, with failure f striking the awaited enricher.
execute_mcp_tool_with(f, tool_name, arguments) ==
    IF tool_name = "enrich_prompt"
    THEN LET result == ExecuteToolTryWith(f, arguments)
         IN  IF Raised(result)
             THEN Raise(HTTPException(400,
                      "Error processing tool '" \o tool_name
                          \o "' (enrich_prompt): " \o result[2].detail))
             ELSE result
    ELSE Raise(HTTPException(404, "Tool '" \o tool_name \o "' not found."))

execute_mcp_tool(tool_name, arguments) ==
    execute_mcp_tool_with(NoFault, tool_name, arguments)

(***************************************************************************)
(* GET /access_resource, main.py:276-285.                                  *)
(***************************************************************************)
\* Mutant of access_mcp_resource_with: the URI matched by its prefix.
access_mcp_resource_with_PrefixMatch(f, uri) ==
    IF Len(uri) >= Len("mcp://status") /\ SubSeq(uri, 1, Len("mcp://status")) = "mcp://status"
    THEN LET result == Await(get_server_status_resource, f)
         IN  IF Raised(result)
             THEN Raise(HTTPException(500,
                      "Error accessing resource '" \o uri \o "': " \o result[2].detail))
             ELSE result
    ELSE Raise(HTTPException(404, "Resource with URI '" \o uri \o "' not found."))

\* Mutant of access_mcp_resource_with: no try/except around the awaited call.
access_mcp_resource_with_NoExcept(f, uri) ==
    IF uri = "mcp://status"
    THEN Await(get_server_status_resource, f)
    ELSE Raise(HTTPException(404, "Resource with URI '" \o uri \o "' not found."))

\* The handler, with failure f striking the awaited resource function.
access_mcp_resource_with(f, uri) ==
    IF uri = "mcp://status"
    THEN LET result == Await(get_server_status_resource, f)
         IN  IF Raised(result)
             THEN Raise(HTTPException(500,
                      "Error accessing resource '" \o uri \o "': " \o result[2].detail))
             ELSE result
    ELSE Raise(HTTPException(404, "Resource with URI '" \o uri \o "' not found."))

access_mcp_resource(uri) == access_mcp_resource_with(NoFault, uri)

(***************************************************************************)
(* GET /health, main.py:288-290.                                           *)
(***************************************************************************)
\* Mutant of health_check: healthy only if the manifest can be built.
health_check_ChecksManifest ==
    IF Raised(get_mcp_manifest) THEN get_mcp_manifest ELSE Return([status |-> "ok"])

health_check == Return([status |-> "ok"])

(***************************************************************************)
(* The framework around a handler.  FastAPI validates the declared         *)
(* parameters of a route before it calls the handler and answers 422 when  *)
(* they do not validate; it answers a returned value with 200, an          *)
(* HTTPException with its status code and detail, and any other exception  *)
(* with 500 "Internal Server Error".                                       *)
(***************************************************************************)
Respond(outcome) ==
    IF ~Raised(outcome) THEN [status |-> 200, body |-> outcome[2]]
    ELSE IF outcome[2].type = "HTTPException"
    THEN [status |-> outcome[2].status_code, body |-> [detail |-> outcome[2].detail]]
    ELSE [status |-> 500, body |-> [text |-> "Internal Server Error"]]

Unprocessable(loc) == [status |-> 422, body |-> [detail |-> Err(loc, "missing")]]

\* class ExecuteToolRequest (main.py:257-259): arguments must be a mapping.
ServeExecuteTool(tool_name, arguments) ==
    IF Tag(arguments) = "obj"
    THEN Respond(execute_mcp_tool(tool_name, Val(arguments)))
    ELSE Unprocessable("body.arguments")

\* The query parameter uri: str (main.py:277).
ServeAccessResource(uri) ==
    IF Tag(uri) = "str"
    THEN Respond(access_mcp_resource(Val(uri)))
    ELSE Unprocessable("query.uri")

\* The same two routes with failure f striking the call the handler awaits.
ServeExecuteToolWith(f, tool_name, arguments) ==
    IF Tag(arguments) = "obj"
    THEN Respond(execute_mcp_tool_with(f, tool_name, Val(arguments)))
    ELSE Unprocessable("body.arguments")

ServeAccessResourceWith(f, uri) ==
    IF Tag(uri) = "str"
    THEN Respond(access_mcp_resource_with(f, Val(uri)))
    ELSE Unprocessable("query.uri")

(***************************************************************************)
(* The requests served.                                                    *)
(***************************************************************************)
RawPrompts == {"", "Build a login form"}

KnownProjectTypes == {"frontend", "backend-api", "database"}

ProjectTypes == KnownProjectTypes \cup {"", "Frontend", "frontend ", "mobile"}

RawPromptValues == {Absent, JInt(5)} \cup {JStr(p) : p \in RawPrompts}

ProjectTypeValues == {Absent, JInt(5)} \cup {JStr(t) : t \in ProjectTypes}

FileCountsValues ==
    {Absent, JNull, JObj(<<>>), JObj(<< <<"py", JInt(3)>> >>),
     JObj(<< <<"py", JStr("3")>> >>), JObj(<< <<"py", JStr("many")>> >>)}

OriginalHeuristicValues == {Absent, JStr("x")}

WorkspaceInfoValues ==
    {Absent, JNull, JStr("frontend")}
        \cup {JObj([file_counts |-> fc, project_type |-> pt, original_heuristic |-> oh]) :
                fc \in FileCountsValues, pt \in ProjectTypeValues,
                oh \in OriginalHeuristicValues}

ArgumentsValues ==
    {Absent} \cup {JObj([raw_prompt |-> rp, workspace_info |-> wi]) :
                      rp \in RawPromptValues, wi \in WorkspaceInfoValues}

ToolNames == {"enrich_prompt", "unknown_tool", "Enrich_Prompt"}

UriValues ==
    {Absent} \cup {JStr(u) : u \in {"mcp://status", "mcp://bogus", "", "mcp://status/",
                                    "MCP://STATUS"}}

Request(op, tool_name, arguments, uri) ==
    [op |-> op, tool_name |-> tool_name, arguments |-> arguments, uri |-> uri]

(***************************************************************************)
(* The state machine.                                                      *)
(***************************************************************************)
\* The connections the model keeps open at once.
MaxInflight == 2

Slots == 1..MaxInflight

NoRequest == Request("none", "", Absent, Absent)

NoResponse == [status |-> 0, body |-> <<>>]

\* A connection: idle, or holding a request received and not yet handled, or
\* holding a request and the response its handler produced.
IdleSlot == [pc |-> "idle", request |-> NoRequest, response |-> NoResponse, responses |-> 0]

Init ==
    /\ pydantic_major \in {1, 2}
    /\ request = NoRequest
    /\ response = NoResponse
    /\ fault = NoFault
    /\ inflight = [s \in Slots |-> IdleSlot]

GetManifest ==
    /\ request' = Request("manifest", "", Absent, Absent)
    /\ response' = Respond(get_mcp_manifest)
    /\ fault' = NoFault
    /\ UNCHANGED <<pydantic_major, inflight>>

\* Mutant of PostExecuteTool: a failure is remembered, and while the request
\* served last failed every call of a tool is answered with that failure.
PostExecuteTool_StickyError ==
    \E tool_name \in ToolNames, arguments \in ArgumentsValues :
        /\ request' = Request("execute_tool", tool_name, arguments, Absent)
        /\ response' = IF response.status >= 400
                       THEN response
                       ELSE ServeExecuteTool(tool_name, arguments)
        /\ fault' = NoFault
        /\ UNCHANGED <<pydantic_major, inflight>>

PostExecuteTool ==
    \E tool_name \in ToolNames, arguments \in ArgumentsValues :
        /\ request' = Request("execute_tool", tool_name, arguments, Absent)
        /\ response' = ServeExecuteTool(tool_name, arguments)
        /\ fault' = NoFault
        /\ UNCHANGED <<pydantic_major, inflight>>

GetAccessResource ==
    \E uri \in UriValues :
        /\ request' = Request("access_resource", "", Absent, uri)
        /\ response' = ServeAccessResource(uri)
        /\ fault' = NoFault
        /\ UNCHANGED <<pydantic_major, inflight>>

GetHealth ==
    /\ request' = Request("health", "", Absent, Absent)
    /\ response' = Respond(health_check)
    /\ fault' = NoFault
    /\ UNCHANGED <<pydantic_major, inflight>>

Next == GetManifest \/ PostExecuteTool \/ GetAccessResource \/ GetHealth

Spec == Init /\ [][Next]_vars

(***************************************************************************)
(* The service with unexpected failures: beside the requests of Spec, a    *)
(* request may be served while a failure strikes the call its handler      *)
(* awaits (the enricher, the resource function).                           *)
(***************************************************************************)
\* Arguments of the requests served under a failure or concurrently: none, the
\* empty mapping, and valid inputs of a known and of an unknown project type.
SampleArgumentsValues ==
    {Absent, JObj([raw_prompt |-> Absent, workspace_info |-> Absent])}
        \cup {JObj([raw_prompt |-> JStr("Build a login form"),
                    workspace_info |->
                        JObj([file_counts |-> JObj(<<>>),
                              project_type |-> JStr(t),
                              original_heuristic |-> JStr("x")])]) :
                 t \in {"frontend", "mobile"}}

PostExecuteToolFault ==
    \E tool_name \in ToolNames, arguments \in SampleArgumentsValues, f \in Faults :
        /\ request' = Request("execute_tool", tool_name, arguments, Absent)
        /\ response' = ServeExecuteToolWith(f, tool_name, arguments)
        /\ fault' = f
        /\ UNCHANGED <<pydantic_major, inflight>>

GetAccessResourceFault ==
    \E uri \in UriValues, f \in Faults :
        /\ request' = Request("access_resource", "", Absent, uri)
        /\ response' = ServeAccessResourceWith(f, uri)
        /\ fault' = f
        /\ UNCHANGED <<pydantic_major, inflight>>

FaultNext == Next \/ PostExecuteToolFault \/ GetAccessResourceFault

FaultSpec == Init /\ [][FaultNext]_vars

(***************************************************************************)
(* The service under concurrent requests.  Every handler is an `async def` *)
(* run by the event loop; the only things a handler awaits are             *)
(* enrich_prompt_tool and get_server_status_resource, which await nothing, *)
(* so a handler runs from its first statement to its return in one step.   *)
(* A connection receives a request, its handler runs, the response is      *)
(* sent and the connection is free again; the steps of different           *)
(* connections interleave freely.                                          *)
(***************************************************************************)
ConcRequests ==
    {Request("manifest", "", Absent, Absent), Request("health", "", Absent, Absent)}
        \cup {Request("execute_tool", n, a, Absent) :
                 n \in {"enrich_prompt", "unknown_tool"}, a \in SampleArgumentsValues}
        \cup {Request("access_resource", "", Absent, u) :
                 u \in {Absent, JStr("mcp://status"), JStr("mcp://bogus")}}

\* The routes, main.py:219, 261, 276, 288: the answer to a request.
Serve(req) ==
    CASE req.op = "manifest" -> Respond(get_mcp_manifest)
      [] req.op = "execute_tool" -> ServeExecuteTool(req.tool_name, req.arguments)
      [] req.op = "access_resource" -> ServeAccessResource(req.uri)
      [] req.op = "health" -> Respond(health_check)

\* Mutant of HandlerInput: the request kept in one place shared by all
\* connections, so a handler reads what the first connection holds.
HandlerInput_Shared(s) ==
    IF inflight[1].pc = "idle" THEN inflight[s].request ELSE inflight[1].request

\* What the handler of connection s works on: its own parameters
\* (main.py:262, 277), local to the call.
HandlerInput(s) == inflight[s].request

\* Mutant of HandlerReady: requests handled one at a time, each waiting until no
\* other connection holds an unanswered request.
HandlerReady_WaitsForOthers(s) ==
    /\ inflight[s].pc = "received"
    /\ \A t \in Slots \ {s} : inflight[t].pc # "received"

\* The handler of connection s can run: it waits for nothing but its request.
HandlerReady(s) == inflight[s].pc = "received"

Receive(s) ==
    \E req \in ConcRequests :
        /\ inflight[s].pc = "idle"
        /\ inflight' = [inflight EXCEPT ![s] =
              [pc |-> "received", request |-> req, response |-> NoResponse,
               responses |-> 0]]
        /\ UNCHANGED <<pydantic_major, request, response, fault>>

Handle(s) ==
    /\ HandlerReady(s)
    /\ inflight' = [inflight EXCEPT ![s] =
          [pc |-> "responded", request |-> @.request,
           response |-> Serve(HandlerInput(s)), responses |-> @.responses + 1]]
    /\ UNCHANGED <<pydantic_major, request, response, fault>>

Close(s) ==
    /\ inflight[s].pc = "responded"
    /\ inflight' = [inflight EXCEPT ![s] = IdleSlot]
    /\ UNCHANGED <<pydantic_major, request, response, fault>>

ConcNext == \E s \in Slots : Receive(s) \/ Handle(s) \/ Close(s)

ConcSpec == Init /\ [][ConcNext]_vars

\* The event loop runs every handler that is ready.
FairConcSpec == ConcSpec /\ \A s \in Slots : WF_vars(Handle(s))

(***************************************************************************)
(* Properties.  Each is a predicate on the request served last and its     *)
(* response, so an invariant speaks of every request after every sequence  *)
(* of earlier requests.                                                    *)
(***************************************************************************)
\* POST /execute_tool reached the handler: the body carried a mapping.
ExecuteToolCalled == request.op = "execute_tool" /\ Tag(request.arguments) = "obj"

EnrichPromptCalled == ExecuteToolCalled /\ request.tool_name = "enrich_prompt"

\* The enricher ran: the arguments parsed into an EnrichPromptInput.
EnricherRan ==
    EnrichPromptCalled /\ EnrichPromptInput(Val(request.arguments)).errors = <<>>

\* The prompt and the project type the enricher received.
GivenRawPrompt == EnrichPromptInput(Val(request.arguments)).value.raw_prompt

GivenProjectType ==
    EnrichPromptInput(Val(request.arguments)).value.workspace_info.project_type

\* The literal text of a known category.
CategorySuffix(project_type) ==
    CASE project_type = "frontend" -> FrontendSuffix
      [] project_type = "backend-api" -> BackendApiSuffix
      [] project_type = "database" -> DatabaseSuffix

\* Prefix and suffix tests, and s without its first n characters.
StartsWith(s, p) == Len(p) <= Len(s) /\ SubSeq(s, 1, Len(p)) = p

EndsWith(s, x) == Len(x) <= Len(s) /\ SubSeq(s, Len(s) - Len(x) + 1, Len(s)) = x

DropFirst(s, n) == SubSeq(s, n + 1, Len(s))

\* C1: for every raw prompt p (the empty one included) and every known project
\* type, the enriched prompt starts with p, ends with the literal suffix of the
\* category, and is exactly p followed by that suffix, whatever p is.
C1_EnrichedIsPromptThenSuffix ==
    (EnricherRan /\ GivenProjectType \in KnownProjectTypes) =>
        /\ response.status = 200
        /\ LET e == response.body.data.enriched_prompt
               p == GivenRawPrompt
               x == CategorySuffix(GivenProjectType)
           IN  /\ StartsWith(e, p)
               /\ EndsWith(e, x)
               /\ Len(e) = Len(p) + Len(x)
               /\ DropFirst(e, Len(p)) = x

C1_Witness ==
    /\ EnricherRan
    /\ GivenProjectType = "frontend"
    /\ GivenRawPrompt = "Build a login form"
    /\ response.status = 200
    /\ response.body.data.enriched_prompt = "Build a login form" \o FrontendSuffix

\* C2: for every raw prompt and every project type that is not one of the three
\* known ones (the empty string, another case, a trailing blank), the enriched
\* prompt is the empty string.
C2_UnknownTypeGivesEmpty ==
    (EnricherRan /\ GivenProjectType \notin KnownProjectTypes) =>
        /\ response.status = 200
        /\ response.body.data.enriched_prompt = ""

C2_Witness ==
    /\ EnricherRan
    /\ GivenProjectType = "Frontend"
    /\ GivenRawPrompt = "Build a login form"
    /\ response.body.data.enriched_prompt = ""

\* C3: for every raw prompt, "backend-api" and "database" give the same enriched
\* prompt: what the enricher answered for one of the two is what it computes
\* for the other.
C3_BackendAndDatabaseAgree ==
    (EnricherRan /\ GivenProjectType \in {"backend-api", "database"}) =>
        /\ response.status = 200
        /\ response.body.data.enriched_prompt
              = EnrichedPromptText(GivenRawPrompt, "backend-api")
        /\ response.body.data.enriched_prompt
              = EnrichedPromptText(GivenRawPrompt, "database")

C3_Witness ==
    /\ EnricherRan
    /\ GivenProjectType = "database"
    /\ GivenRawPrompt = "Build a login form"
    /\ response.body.data.enriched_prompt = "Build a login form" \o BackendApiSuffix

\* The JSON types the models declare, read strictly: a string raw_prompt and a
\* workspace_info object holding a mapping of integers file_counts and the
\* strings project_type and original_heuristic.
MatchesShape(arguments) ==
    /\ Tag(arguments.raw_prompt) = "str"
    /\ Tag(arguments.workspace_info) = "obj"
    /\ LET w == Val(arguments.workspace_info)
       IN  /\ Tag(w.file_counts) = "obj"
           /\ \A i \in 1..Len(Val(w.file_counts)) : Tag(Val(w.file_counts)[i][2]) = "int"
           /\ Tag(w.project_type) = "str"
           /\ Tag(w.original_heuristic) = "str"

\* C4: execute_tool "enrich_prompt" with arguments of the EnrichPromptInput shape
\* answers 200 with exactly {data: {enriched_prompt: e}}, e the enricher's text
\* for that raw_prompt and project_type; for "frontend" e ends with the
\* frontend suffix.
C4_ValidArgumentsSucceed ==
    (EnrichPromptCalled /\ MatchesShape(Val(request.arguments))) =>
        LET a == Val(request.arguments)
            p == Val(a.raw_prompt)
            t == Val(Val(a.workspace_info).project_type)
        IN  /\ response.status = 200
            /\ response.body = [data |-> [enriched_prompt |-> EnrichedPromptText(p, t)]]
            /\ t = "frontend" => EndsWith(response.body.data.enriched_prompt, FrontendSuffix)

C4_Witness ==
    /\ EnrichPromptCalled
    /\ Val(request.arguments) =
          [raw_prompt |-> JStr("Build a login form"),
           workspace_info |-> JObj([file_counts |-> JObj(<<>>),
                                    project_type |-> JStr("frontend"),
                                    original_heuristic |-> JStr("x")])]
    /\ response.status = 200
    /\ EndsWith(response.body.data.enriched_prompt, FrontendSuffix)

\* C5: for every tool name other than "enrich_prompt" and every arguments
\* mapping (empty, malformed or a valid enrich_prompt input) execute_tool answers
\* 404 with the not-found message: never a validation error, never an enriched
\* prompt.
C5_UnknownToolIsNotFound ==
    (ExecuteToolCalled /\ request.tool_name # "enrich_prompt") =>
        /\ response.status = 404
        /\ response.body = [detail |-> "Tool '" \o request.tool_name \o "' not found."]

C5_Witness ==
    /\ ExecuteToolCalled
    /\ request.tool_name = "unknown_tool"
    /\ Val(request.arguments) = [raw_prompt |-> Absent, workspace_info |-> Absent]
    /\ response.status = 404

\* C6 as stated: execute_tool "enrich_prompt" with arguments that do not match
\* the declared shape (a member missing, or a value of another type) answers 400.
C6_Original_ShapeMismatchIs400 ==
    (EnrichPromptCalled /\ ~MatchesShape(Val(request.arguments))) =>
        response.status = 400

\* What pydantic accepts for a `str` field and for an `int` value.
ConvertsToStr(v) == Tag(v) = "str" \/ (Tag(v) = "int" /\ pydantic_major = 1)

ConvertsToInt(v) == Tag(v) = "int" \/ (Tag(v) = "str" /\ IsIntString(Val(v)))

Parses(arguments) ==
    /\ ConvertsToStr(arguments.raw_prompt)
    /\ Tag(arguments.workspace_info) = "obj"
    /\ LET w == Val(arguments.workspace_info)
       IN  /\ Tag(w.file_counts) = "obj"
           /\ \A i \in 1..Len(Val(w.file_counts)) : ConvertsToInt(Val(w.file_counts)[i][2])
           /\ ConvertsToStr(w.project_type)
           /\ ConvertsToStr(w.original_heuristic)

\* C6, amended: execute_tool "enrich_prompt" answers 400, with the tool's error
\* message, for arguments that do not parse: raw_prompt or workspace_info
\* missing, workspace_info not an object, one of its members missing, or a value
\* that cannot be converted to the declared type.  A value of another JSON type
\* that converts (a string of digits for a count; under pydantic 1 a number for
\* a string) is not rejected.
C6_UnparsableIs400 ==
    (EnrichPromptCalled /\ ~Parses(Val(request.arguments))) =>
        /\ response.status = 400
        /\ StartsWith(response.body.detail,
                      "Error processing tool 'enrich_prompt' (enrich_prompt): ")

C6_Witness ==
    /\ EnrichPromptCalled
    /\ Val(request.arguments) = [raw_prompt |-> Absent, workspace_info |-> Absent]
    /\ response.status = 400

\* C7: GET /manifest always answers 200 with the manifest: the server's name,
\* version and description, the tool list and the resource list.
C7_ManifestAnswers200 ==
    request.op = "manifest" =>
        /\ response.status = 200
        /\ {"server_name", "server_version", "description", "tools", "resources"}
              \subseteq DOMAIN response.body
        /\ response.body.server_name = SERVER_NAME
        /\ response.body.server_version = SERVER_VERSION
        /\ response.body.description = SERVER_DESCRIPTION

\* C8: after any sequence of other requests every manifest call returns the
\* same structure, which lists exactly one tool, "enrich_prompt", and exactly
\* one resource, "mcp://status".
C8_ManifestListsOneToolOneResource ==
    request.op = "manifest" =>
        /\ response.status = 200
        /\ \E required \in BOOLEAN : response.body = MCPManifest(required)
        /\ Len(response.body.tools) = 1
        /\ response.body.tools[1].name = "enrich_prompt"
        /\ Len(response.body.resources) = 1
        /\ response.body.resources[1].uri_pattern = "mcp://status"

\* A valid enrich_prompt input, and the same with one member left out.
ValidArguments ==
    [raw_prompt |-> JStr("Build a login form"),
     workspace_info |-> JObj([file_counts |-> JObj(<<>>),
                              project_type |-> JStr("frontend"),
                              original_heuristic |-> JStr("x")])]

Omitting(argument) == [ValidArguments EXCEPT ![argument] = Absent]

\* C9: the manifest agrees with the dispatcher: the tools it lists are the tool
\* names execute_tool accepts, the resources it lists are the URIs
\* access_resource serves, and it declares an argument of enrich_prompt required
\* exactly when leaving the argument out makes execute_tool answer 400.
C9_ManifestAgreesWithDispatcher ==
    request.op = "manifest" =>
        /\ response.status = 200
        /\ {response.body.tools[i].name : i \in 1..Len(response.body.tools)}
              = {n \in ToolNames :
                    Respond(execute_mcp_tool(n, ValidArguments)).status # 404}
        /\ {JStr(response.body.resources[i].uri_pattern) :
                i \in 1..Len(response.body.resources)}
              = {u \in UriValues : ServeAccessResource(u).status = 200}
        /\ \A argument \in {"raw_prompt", "workspace_info"} :
              response.body.tools[1].input_schema[argument].required
                 = (Respond(execute_mcp_tool("enrich_prompt", Omitting(argument))).status
                       = 400)

\* C10: access_resource "mcp://status" always answers 200 with exactly
\* {status: "running", version: v}, v the configured server version, whatever
\* was requested before.
C10_StatusResourceIsFixed ==
    (request.op = "access_resource" /\ request.uri = JStr("mcp://status")) =>
        /\ response.status = 200
        /\ response.body = [status |-> "running", version |-> "1.0.0"]
        /\ response.body.version = SERVER_VERSION

C10_Witness ==
    /\ request.op = "access_resource"
    /\ request.uri = JStr("mcp://status")
    /\ response.status = 200
    /\ response.body.status = "running"

\* C11: for every uri string other than exactly "mcp://status" (the empty
\* string, a trailing slash, another case) access_resource answers 404 with the
\* not-found message and no status payload.
C11_OtherUriIsNotFound ==
    (/\ request.op = "access_resource"
     /\ Tag(request.uri) = "str"
     /\ Val(request.uri) # "mcp://status") =>
        /\ response.status = 404
        /\ response.body =
              [detail |-> "Resource with URI '" \o Val(request.uri) \o "' not found."]

C11_Witness ==
    /\ request.op = "access_resource"
    /\ request.uri = JStr("mcp://status/")
    /\ response.status = 404

\* C12: the enricher is total: for every pair of strings (raw_prompt,
\* project_type), an empty prompt and an empty or unrecognised type included,
\* it returns a string and does not raise, so the call that reached it is
\* answered 200 with a string enriched_prompt.
C12_EnricherIsTotal ==
    EnricherRan =>
        /\ response.status = 200
        /\ DOMAIN response.body = {"data"}
        /\ DOMAIN response.body.data = {"enriched_prompt"}
        /\ response.body.data.enriched_prompt \in STRING

C12_Witness ==
    /\ EnricherRan
    /\ GivenRawPrompt = ""
    /\ GivenProjectType = ""
    /\ response.status = 200

\* C13: under every interleaving of the requests in flight, the response a
\* request receives is the one the service gives that request alone: it does
\* not depend on what the other connections hold.
C13_ResponsesAsInIsolation ==
    \A s \in Slots :
        inflight[s].pc = "responded" =>
            /\ inflight[s].response.status = Serve(inflight[s].request).status
            /\ inflight[s].response = Serve(inflight[s].request)

C13_Witness ==
    /\ inflight[1].pc = "responded"
    /\ inflight[1].request.op = "execute_tool"
    /\ inflight[1].response.status = 400
    /\ inflight[2].pc = "responded"
    /\ inflight[2].request.op = "health"
    /\ inflight[2].response.status = 200

\* The HTTP statuses of a failed request: VALIDATION (400, and 422 from the
\* framework's own parsing of the request), NOT_FOUND (404), INTERNAL (500).
ErrorStatuses == {400, 404, 422, 500}

\* C14: no error is fatal and failures are isolated: from a state whose request
\* ended in 400, 404, 422 or 500 every request can still be served, and it receives
\* the response the service gives that request by itself; nothing of the
\* failure shows in it.
C14_FailuresAreIsolated ==
    [][response.status \in ErrorStatuses =>
          /\ response'.status = Serve(request').status
          /\ response' = Serve(request')]_vars

C14_Witness ==
    /\ request.op = "execute_tool"
    /\ request.tool_name = "unknown_tool"
    /\ response.status = 404

\* C15: health() answers 200 with {status: "ok"} in every reachable state,
\* whatever was served before and whatever the manifest, the enricher and the
\* status resource do.
C15_HealthIsOk ==
    request.op = "health" =>
        /\ response.status = 200
        /\ response.body = [status |-> "ok"]

C15_Witness ==
    /\ request.op = "health"
    /\ response.status = 200
    /\ Respond(get_mcp_manifest).status = 500

\* C16: when producing the payload of "mcp://status" fails unexpectedly,
\* access_resource answers 500 with its own error message (not 404, not an
\* unhandled failure); and 500 is answered on the known-URI path only: every
\* other URI is answered 404, failure or not.
C16_ResourceFailureIs500 ==
    (request.op = "access_resource" /\ Tag(request.uri) = "str") =>
        /\ (Val(request.uri) = "mcp://status" /\ fault # NoFault) =>
              /\ response.status = 500
              /\ DOMAIN response.body = {"detail"}
              /\ response.body.detail =
                    "Error accessing resource 'mcp://status': " \o fault.detail
        /\ response.status = 500 => Val(request.uri) = "mcp://status"
        /\ Val(request.uri) # "mcp://status" => response.status = 404

C16_Witness ==
    /\ request.op = "access_resource"
    /\ request.uri = JStr("mcp://status")
    /\ fault = Exception("RuntimeError", "unexpected failure")
    /\ response.status = 500

\* Arguments valid in every member but, possibly, project_type.
ValidButProjectType(arguments) ==
    /\ Tag(arguments.raw_prompt) = "str"
    /\ Tag(arguments.workspace_info) = "obj"
    /\ LET w == Val(arguments.workspace_info)
       IN  /\ Tag(w.file_counts) = "obj"
           /\ \A i \in 1..Len(Val(w.file_counts)) : Tag(Val(w.file_counts)[i][2]) = "int"
           /\ Tag(w.original_heuristic) = "str"

\* C17: through execute_tool every string project_type is accepted when the
\* other arguments are valid: the answer is 200, with the empty enriched_prompt
\* for an unrecognised or empty type; a validation error comes from
\* project_type only when it is absent or not a string.
C17_EveryStringProjectTypeAccepted ==
    (EnrichPromptCalled /\ ValidButProjectType(Val(request.arguments))) =>
        LET project_type == Val(Val(request.arguments).workspace_info).project_type
        IN  /\ Tag(project_type) = "str" =>
                  /\ response.status = 200
                  /\ Val(project_type) \notin KnownProjectTypes =>
                        response.body.data.enriched_prompt = ""
            /\ response.status \in {200, 400}
            /\ response.status = 400 => Tag(project_type) # "str"

C17_Witness ==
    /\ EnrichPromptCalled
    /\ ValidButProjectType(Val(request.arguments))
    /\ Val(Val(request.arguments).workspace_info).project_type = JStr("")
    /\ response.status = 200
    /\ response.body.data.enriched_prompt = ""

\* Arguments that fail to parse, each in its own way.
FailingArguments ==
    {[raw_prompt |-> Absent, workspace_info |-> Absent],
     [raw_prompt |-> Absent, workspace_info |-> ValidArguments.workspace_info],
     [raw_prompt |-> JStr("Build a login form"), workspace_info |-> Absent],
     [raw_prompt |-> JStr("Build a login form"), workspace_info |-> JStr("frontend")],
     [raw_prompt |-> JStr("Build a login form"),
      workspace_info |-> JObj([file_counts |-> JObj(<< <<"py", JStr("many")>> >>),
                               project_type |-> Absent,
                               original_heuristic |-> JStr("x")])]}

\* C18: the 400 message of a rejected enrich_prompt call is the tool's name
\* followed by the text of the parse error, so a call that fails in another way
\* (other members missing or unconvertible) gets another message.
C18_MessageCarriesParseError ==
    (EnrichPromptCalled /\ response.status = 400) =>
        LET errors == EnrichPromptInput(Val(request.arguments)).errors
        IN  /\ errors # <<>>
            /\ response.body.detail =
                  "Error processing tool 'enrich_prompt' (enrich_prompt): "
                      \o ValidationErrorText(errors)
            /\ \A other \in FailingArguments :
                  EnrichPromptInput(other).errors # errors =>
                      Respond(execute_mcp_tool("enrich_prompt", other)).body.detail
                         # response.body.detail

C18_Witness ==
    /\ EnrichPromptCalled
    /\ Val(request.arguments) =
          [raw_prompt |-> JStr("Build a login form"), workspace_info |-> Absent]
    /\ response.status = 400
    /\ response.body.detail =
          "Error processing tool 'enrich_prompt' (enrich_prompt): "
              \o "1 validation error for EnrichPromptInput\nworkspace_info\n  missing"

\* C19: every request received is answered: its handler runs without waiting
\* for any other request, and the request gets exactly one response, a result
\* or an error.
C19_EveryRequestAnswered ==
    /\ \A s \in Slots : (inflight[s].pc = "received") ~> (inflight[s].pc = "responded")
    /\ [](\A s \in Slots :
            inflight[s].pc = "responded" =>
                inflight[s].responses = 1 /\ inflight[s].response.status # 0)

C19_Witness ==
    /\ inflight[1].pc = "received"
    /\ inflight[2].pc = "responded"
    /\ inflight[2].responses = 1

\* C20: the "enrich_prompt" branch of execute_tool has two outcomes, 200 and
\* 400: a failure is answered 400 with the tool's error message whether the
\* arguments fail to parse or the enricher itself fails; the branch answers
\* neither 404 nor 500 and lets no exception out of the handler.
C20_EnrichBranchIs200Or400 ==
    EnrichPromptCalled =>
        /\ response.status \in {200, 400}
        /\ response.status = 200 <=> (EnricherRan /\ fault = NoFault)
        /\ response.status = 400 =>
              /\ DOMAIN response.body = {"detail"}
              /\ response.body.detail =
                    "Error processing tool 'enrich_prompt' (enrich_prompt): "
                       \o (IF EnricherRan
                           THEN fault.detail
                           ELSE ValidationErrorText(
                                    EnrichPromptInput(Val(request.arguments)).errors))

C20_Witness ==
    /\ EnricherRan
    /\ fault = Exception("RuntimeError", "unexpected failure")
    /\ response.status = 400
    /\ response.body.detail =
          "Error processing tool 'enrich_prompt' (enrich_prompt): unexpected failure"

\* Workspaces that parse and differ from one another in file_counts and in
\* original_heuristic, each with the project type given.
WorkspaceVariants(project_type) ==
    {JObj([file_counts |-> fc, project_type |-> project_type, original_heuristic |-> JStr(oh)]) :
        fc \in {JObj(<<>>), JObj(<< <<"py", JInt(3)>> >>),
                JObj(<< <<"tsx", JInt(40)>>, <<"css", JStr("7")>> >>)},
        oh \in {"x", "package.json lists react"}}

\* C21: for valid enrich_prompt arguments the enriched prompt depends on
\* raw_prompt and workspace_info.project_type only: the same call with other
\* file_counts and another original_heuristic gets the identical response.
C21_OnlyPromptAndTypeMatter ==
    EnricherRan =>
        LET arguments == Val(request.arguments)
            project_type == Val(arguments.workspace_info).project_type
        IN  \A w \in WorkspaceVariants(project_type) :
                LET other == [raw_prompt |-> arguments.raw_prompt, workspace_info |-> w]
                    answer == Respond(execute_mcp_tool("enrich_prompt", other))
                IN  /\ EnrichPromptInput(other).errors = <<>>
                    /\ answer.status = response.status
                    /\ answer = response

C21_Witness ==
    /\ EnricherRan
    /\ GivenProjectType = "frontend"
    /\ GivenRawPrompt = "Build a login form"
    /\ Val(Val(request.arguments).workspace_info).file_counts = JObj(<< <<"py", JInt(3)>> >>)
    /\ response.status = 200
    /\ response =
          Respond(execute_mcp_tool("enrich_prompt",
              [raw_prompt |-> JStr("Build a login form"),
               workspace_info |->
                  JObj([file_counts |-> JObj(<<>>),
                        project_type |-> JStr("frontend"),
                        original_heuristic |-> JStr("package.json lists react")])]))

\* C22: the enricher never returns the raw prompt unchanged: for every
\* non-empty raw prompt p and every project type the result differs from p,
\* being p followed by a non-empty suffix or the empty string; and, for every
\* prompt, the result is non-empty exactly when the project type is one of the
\* three known categories.
C22_NeverTheRawPromptUnchanged ==
    EnricherRan =>
        /\ response.status = 200
        /\ LET e == response.body.data.enriched_prompt
               p == GivenRawPrompt
           IN  /\ p # "" =>
                     /\ e # p
                     /\ \/ e = ""
                        \/ StartsWith(e, p) /\ Len(e) > Len(p)
               /\ e # "" <=> GivenProjectType \in KnownProjectTypes

C22_Witness ==
    /\ EnricherRan
    /\ GivenRawPrompt = "Build a login form"
    /\ GivenProjectType = "database"
    /\ response.status = 200
    /\ response.body.data.enriched_prompt # "Build a login form"
    /\ response.body.data.enriched_prompt # ""

=============================================================================
